---- MODULE Spec2Model ----
(***************************************************************************)
(* Model of Entrega_RFV.py: a Streamlit script that reads an uploaded      *)
(* purchases file, computes the RFV indicators per customer (Recencia,     *)
(* Frequencia, Valor), classifies each indicator by quartiles, filters the *)
(* classified table by three selected classes, shows and exports it, and   *)
(* keeps per-profile comments in st.session_state["comentarios_rfv"].      *)
(*                                                                         *)
(* Streamlit runs the whole script again after every user interaction, so  *)
(* every action below is one interaction followed by one run of the script *)
(* (Script).  Timestamps are counted in units of 1/UnidadesPorDia day;     *)
(* quantiles are kept multiplied by Escala so that they stay integers.     *)
(* Every cell of an uploaded row holds a value (no empty cells).           *)
(***************************************************************************)
EXTENDS Integers, Sequences, FiniteSets, TLC

VARIABLES
    uploaded_file,       \* <<>> (None) or <<file>>
    dados_compras,       \* checkbox "Exibir dados do arquivo de compras"
    filtrada,            \* checkbox "Exibir tabela RFV filtrada"
    selecao_recencia,    \* the three select boxes
    selecao_frequencia,
    selecao_valor,
    comentarios_rfv,     \* st.session_state["comentarios_rfv"]
    submit_button,       \* value of the two buttons in the last run
    erase_button,
    comentario_input,    \* text input read by line 349 in the last run, else ""
    outcome,             \* how the last run of the script ended
    tela,                \* names of the tables st.dataframe showed, in order
    df_RFV,              \* <<>> or <<the classified table of the last run>>
    quartis,             \* <<>> or <<the quantile table of the last run>>
    df_marketing,        \* <<>> or <<the strategy table shown in the last run>>
    df_xlsx,             \* <<>> or <<the sheet offered by the first download button>>
    df_xlsx2             \* <<>> or <<the sheet offered by the second download button>>

vars == <<uploaded_file, dados_compras, filtrada, selecao_recencia,
          selecao_frequencia, selecao_valor, comentarios_rfv, submit_button,
          erase_button, comentario_input, outcome, tela, df_RFV, quartis,
          df_marketing, df_xlsx, df_xlsx2>>

-----------------------------------------------------------------------------
(* Bounds of the model *)

MaxRows == 3            \* rows of an uploaded well-formed file
MaxInstante == 2        \* latest purchase timestamp, in units of 1/UnidadesPorDia day
MaxRowsQuaisquer == 1   \* rows of an uploaded file that may be malformed
MaxClientes == 4        \* customers of an indicator table drawn directly

\* records of the indicator tables drawn directly: one family spreads
\* Recencia, the other spreads Frequencia and Valor
RegistrosR == [Recencia : 1..4, Frequencia : {1}, Valor : {50}]
RegistrosFV == [Recencia : 1..2, Frequencia : 1..2, Valor : {50, 100}]

Clientes == {1, 2}               \* ID_cliente values of uploaded rows
Codigos == {"T1", "T2"}          \* CodigoCompra values
Valores == {50}                  \* ValorTotal values
Textos == {"", "promo"}          \* texts typed in the comment box

UnidadesPorDia == 2   \* timestamp resolution: half days
Escala == 4           \* quantiles 0.25, 0.5, 0.75 are multiples of 1/4

Colunas == {"ID_cliente", "DiaCompra", "CodigoCompra", "ValorTotal"}
Classes == <<"A", "B", "C", "D">>

-----------------------------------------------------------------------------
(* pandas primitives *)

\* F(v), with v evaluated once
Com(v, F(_)) == CHOOSE y \in {F(x) : x \in {v}} : TRUE

Max(S) == CHOOSE x \in S : \A y \in S : y <= x

Range(s) == {s[i] : i \in 1..Len(s)}

RECURSIVE Sum(_)
Sum(s) == IF s = <<>> THEN 0 ELSE Head(s) + Sum(Tail(s))

RECURSIVE SortedSeq(_)
\* the values of a set, ascending (groupby sorts its keys)
SortedSeq(S) ==
    IF S = {} THEN <<>>
    ELSE LET m == CHOOSE x \in S : \A y \in S : x <= y
         IN  <<m>> \o SortedSeq(S \ {m})

RECURSIVE Insert(_, _)
Insert(x, s) ==
    IF s = <<>> THEN <<x>>
    ELSE IF x <= Head(s) THEN <<x>> \o s
    ELSE <<Head(s)>> \o Insert(x, Tail(s))

RECURSIVE Sort(_)
\* the values of a column, ascending, repetitions kept
Sort(s) == IF s = <<>> THEN <<>> ELSE Insert(Head(s), Sort(Tail(s)))

Column(rows, c) == [i \in 1..Len(rows) |-> rows[i][c]]

Group(rows, id) == SelectSeq(rows, LAMBDA r : r.ID_cliente = id)

Keys(rows) == SortedSeq(Range(Column(rows, "ID_cliente")))

RECURSIVE merge(_, _)
\* left.merge(right, on="ID_cliente"): inner join, in the order of left
merge(left, right) ==
    IF left = <<>> THEN <<>>
    ELSE LET l == Head(left)
             m == SelectSeq(right, LAMBDA r : r.ID_cliente = l.ID_cliente)
         IN  [i \in 1..Len(m) |-> l @@ m[i]] \o merge(Tail(left), right)

Drop(r, c) == [f \in DOMAIN r \ {c} |-> r[f]]

\* A DataFrame: its index, the names of its columns and its rows
DataFrame(index, columns, data) ==
    [index |-> index, columns |-> columns, data |-> data]

set_index(rows, columns, c) ==
    DataFrame(Column(rows, c),
              SelectSeq(columns, LAMBDA k : k # c),
              [i \in 1..Len(rows) |-> Drop(rows[i], c)])

\* positions i of df whose column col equals v
Matching(df, col, v) == SelectSeq([i \in 1..Len(df.data) |-> i],
                                  LAMBDA i : df.data[i][col] = v)

-----------------------------------------------------------------------------
(* RFV indicators, lines 168-215 *)

Timedelta_days_1 == UnidadesPorDia

days(delta) == delta \div UnidadesPorDia

dia_atual_sem_dia(df_compras) == Max(Range(Column(df_compras, "DiaCompra")))

dia_atual(df_compras) ==
    Max(Range(Column(df_compras, "DiaCompra"))) + Timedelta_days_1

df_recencia(df_compras) ==
    LET k == Keys(df_compras)
    IN  [i \in 1..Len(k) |->
            [ID_cliente |-> k[i],
             Recencia |-> days(dia_atual(df_compras)
                 - Max(Range(Column(Group(df_compras, k[i]), "DiaCompra"))))]]

count_nunique(col) == Cardinality(Range(col))

\* .count(): the number of cells of the column
count(col) == Len(col)

df_frequencia(df_compras) ==
    LET k == Keys(df_compras)
    IN  [i \in 1..Len(k) |->
            [ID_cliente |-> k[i],
             Frequencia |-> count(Column(Group(df_compras, k[i]), "CodigoCompra"))]]

df_valor(df_compras) ==
    LET k == Keys(df_compras)
    IN  [i \in 1..Len(k) |->
            [ID_cliente |-> k[i],
             Valor |-> Sum(Column(Group(df_compras, k[i]), "ValorTotal"))]]

Indicadores == <<"Recencia", "Frequencia", "Valor">>

\* df_RFV before classification (line 215)
df_RFV_indicadores(df_compras) ==
    set_index(merge(merge(df_recencia(df_compras), df_frequencia(df_compras)),
                    df_valor(df_compras)),
              <<"ID_cliente">> \o Indicadores, "ID_cliente")

-----------------------------------------------------------------------------
(* Quartile classification, lines 41-60 and 217-234 *)

Quantis == <<"0.25", "0.5", "0.75">>

quantile_lower(col, k) ==
    LET s == Sort(col)
        lo == ((Len(s) - 1) * k) \div Escala
    IN  Escala * s[lo + 1]

\* the k/4 quantile of a non-empty column, times Escala: linear interpolation
\* between the order statistics around position (n-1)*k/4 (pandas' default)
quantile(col, k) ==
    LET s == Sort(col)
        pos == (Len(s) - 1) * k
        lo == pos \div Escala
        frac == pos % Escala
        hi == IF lo + 2 <= Len(s) THEN lo + 2 ELSE lo + 1
    IN  Escala * s[lo + 1] + frac * (s[hi] - s[lo + 1])

\* df_RFV.quantile([0.25, 0.5, 0.75]); a column with no rows gives NaN
quantis_de(df) ==
    [c \in Range(Indicadores) |->
        [q \in Range(Quantis) |->
            IF df.data = <<>> THEN "NaN"
            ELSE quantile(Column(df.data, c),
                          CHOOSE k \in 1..3 : Quantis[k] = q)]]

recencia_class_estrito(x, r, q_dict) ==
    IF x * Escala < q_dict[r]["0.25"] THEN "A"
    ELSE IF x * Escala < q_dict[r]["0.5"] THEN "B"
    ELSE IF x * Escala < q_dict[r]["0.75"] THEN "C"
    ELSE "D"

recencia_class(x, r, q_dict) ==
    IF x * Escala <= q_dict[r]["0.25"] THEN "A"
    ELSE IF x * Escala <= q_dict[r]["0.5"] THEN "B"
    ELSE IF x * Escala <= q_dict[r]["0.75"] THEN "C"
    ELSE "D"

frequencia_class_estrito(x, f, q_dict) ==
    IF x * Escala < q_dict[f]["0.25"] THEN "D"
    ELSE IF x * Escala < q_dict[f]["0.5"] THEN "C"
    ELSE IF x * Escala < q_dict[f]["0.75"] THEN "B"
    ELSE "A"

frequencia_class(x, f, q_dict) ==
    IF x * Escala <= q_dict[f]["0.25"] THEN "D"
    ELSE IF x * Escala <= q_dict[f]["0.5"] THEN "C"
    ELSE IF x * Escala <= q_dict[f]["0.75"] THEN "B"
    ELSE "A"

ColunasRFV == Indicadores \o <<"R_quartil", "F_quartil", "V_quartil">>

\* lines 222-234: the three class columns
classificar(df, q) ==
    DataFrame(df.index, ColunasRFV,
        [i \in 1..Len(df.data) |->
            df.data[i] @@
            [R_quartil |-> recencia_class(df.data[i].Recencia, "Recencia", q),
             F_quartil |-> frequencia_class(df.data[i].Frequencia, "Frequencia", q),
             V_quartil |-> frequencia_class(df.data[i].Valor, "Valor", q)]])

-----------------------------------------------------------------------------
(* Filter, export and comments, lines 32-38, 63-67 and 260-434 *)

\* reset_index(drop=True): the index becomes 0..n-1 and the old one is dropped
selecao_valores_categoricos(relatorio, col, selecionados, verificacao) ==
    IF verificacao THEN relatorio
    ELSE LET m == Matching(relatorio, col, selecionados)
         IN  DataFrame([i \in 1..Len(m) |-> i - 1], relatorio.columns,
                       [i \in 1..Len(m) |-> relatorio.data[m[i]]])

df_RFV1_de(df, sr, sf, sv) ==
    selecao_valores_categoricos(
        selecao_valores_categoricos(
            selecao_valores_categoricos(df, "R_quartil", sr, FALSE),
            "F_quartil", sf, FALSE),
        "V_quartil", sv, FALSE)

\* to_excel(index=False): one sheet, the header row and one row per row of
\* the frame, holding the columns only
df_to_excel(df) == [sheet_name |-> "Sheet1", header |-> df.columns, rows |-> df.data]

\* a composite code: the three class letters in order
Score(r, f, v) == <<r, f, v>>

dict_vazio == [c \in {} |-> ""]

get(d, k, default) == IF k \in DOMAIN d THEN d[k] ELSE default

setitem(d, k, v) == [c \in DOMAIN d \cup {k} |-> IF c = k THEN v ELSE d[c]]

pop_tudo(d, k) == dict_vazio

pop(d, k) == [c \in DOMAIN d \ {k} |-> d[c]]

comentarios_lidos_depois(antes, depois) == depois

\* lines 329-331 run before lines 348-354: the comment column is mapped from
\* the session state as it is before the buttons are handled
comentarios_lidos(antes, depois) == antes

\* lines 321-331 / 406-418
df_marketing_strategy_de(df, comentarios) ==
    DataFrame(df.index, <<"RFV_Score", "Comentario">>,
        [i \in 1..Len(df.data) |->
            LET s == Score(df.data[i].R_quartil, df.data[i].F_quartil,
                           df.data[i].V_quartil)
            IN  [RFV_Score |-> s, Comentario |-> get(comentarios, s, "")]])

\* lines 358-360 / 422-424
df_estrategias_de(df, mkt) ==
    DataFrame(df.index, Indicadores \o <<"RFV_Score", "Sugestao">>,
        [i \in 1..Len(df.data) |->
            [Recencia |-> df.data[i].Recencia,
             Frequencia |-> df.data[i].Frequencia,
             Valor |-> df.data[i].Valor,
             RFV_Score |-> mkt.data[i].RFV_Score,
             Sugestao |-> mkt.data[i].Comentario]])

-----------------------------------------------------------------------------
(* One run of the script, lines 79-447 *)

\* An uploaded file: the columns of its header, whether the cells of DiaCompra
\* parse as dates, and its rows
Arquivo(colunas, datas_validas, linhas) ==
    [colunas |-> colunas, datas_validas |-> datas_validas, linhas |-> linhas]

\* What a run leaves behind.  ss is st.session_state["comentarios_rfv"] at the
\* start of the run, <<>> when the key is absent; quantil_vazio is what
\* DataFrame.quantile does on a frame without rows (it depends on the pandas
\* release: NaN quantiles, or an exception)
Script(file, dc, filt, sr, sf, sv, ss, sub, era, txt, quantil_vazio) ==
    LET comentarios == IF ss = <<>> THEN dict_vazio ELSE ss[1]    \* 81-82
        Fim(o, t) ==
            [outcome |-> o, tela |-> t, df_RFV |-> <<>>, quartis |-> <<>>,
             df_marketing |-> <<>>, df_xlsx |-> <<>>, df_xlsx2 |-> <<>>,
             comentarios |-> comentarios]
    IN
    IF file = <<>> THEN Fim("sem_arquivo", <<>>)                   \* 134
    ELSE
    LET f == file[1]
        tela1 == IF dc THEN <<"df_compras">> ELSE <<>>             \* 149-166
    IN
    IF "DiaCompra" \notin f.colunas THEN Fim("ValueError", <<>>)   \* 136-140
    ELSE IF f.linhas # <<>> /\ ~f.datas_validas
        THEN Fim("TypeError", tela1)                               \* 173
    ELSE IF "ID_cliente" \notin f.colunas THEN Fim("KeyError", tela1)    \* 176
    ELSE IF "CodigoCompra" \notin f.colunas THEN Fim("KeyError", tela1)  \* 192
    ELSE IF "ValorTotal" \notin f.colunas THEN Fim("KeyError", tela1)    \* 201
    ELSE IF f.linhas = <<>> /\ quantil_vazio # "NaN"
        THEN Fim(quantil_vazio, tela1)                             \* 218
    ELSE
    Com(IF f.linhas = <<>> THEN DataFrame(<<>>, Indicadores, <<>>)
        ELSE df_RFV_indicadores(f.linhas),                         \* 168-215
        LAMBDA ind :
    Com(quantis_de(ind), LAMBDA q :                                \* 218
    Com(classificar(ind, q), LAMBDA rfv :                          \* 222-234
    Com(df_RFV1_de(rfv, sr, sf, sv), LAMBDA rfv1 :                 \* 261-280
    Com(IF sub THEN setitem(comentarios, Score(sr, sf, sv), txt)
        ELSE IF era THEN pop(comentarios, Score(sr, sf, sv))
        ELSE comentarios,                                          \* 334, 348-354
        LAMBDA depois :
    IF filt
    THEN Com(df_marketing_strategy_de(
                 rfv1, comentarios_lidos(comentarios, depois)),    \* 321-331
             LAMBDA mkt :
             [outcome |-> "ok",
              tela |-> tela1 \o <<"df_RFV1", "df_marketing_strategy1">>,
              df_RFV |-> <<rfv>>, quartis |-> <<q>>,
              df_marketing |-> <<mkt>>,
              df_xlsx |-> <<df_to_excel(rfv1)>>,
              df_xlsx2 |-> <<df_to_excel(df_estrategias_de(rfv1, mkt))>>,
              comentarios |-> depois])
    ELSE Com(df_marketing_strategy_de(rfv, comentarios),           \* 406-418
             LAMBDA mkt :
             [outcome |-> "ok",
              tela |-> tela1 \o <<"df_RFV", "df_marketing_strategy">>,
              df_RFV |-> <<rfv>>, quartis |-> <<q>>,
              df_marketing |-> <<mkt>>,
              df_xlsx |-> <<df_to_excel(rfv)>>,
              df_xlsx2 |-> <<df_to_excel(df_estrategias_de(rfv, mkt))>>,
              comentarios |-> comentarios]))))))

QuantilVazio == {"NaN", "TypeError"}

\* The script runs with the given widget values and session state
Rerun(file, dc, filt, sr, sf, sv, ss, sub, era, txt) ==
    \E qv \in IF file # <<>> /\ file[1].linhas = <<>>
               THEN QuantilVazio ELSE {"NaN"} :
        \E r \in {Script(file, dc, filt, sr, sf, sv, ss, sub, era, txt, qv)} :
            /\ uploaded_file' = file
            /\ dados_compras' = dc
            /\ filtrada' = filt
            /\ selecao_recencia' = sr
            /\ selecao_frequencia' = sf
            /\ selecao_valor' = sv
            /\ comentarios_rfv' = r.comentarios
            /\ submit_button' = sub
            /\ erase_button' = era
            /\ comentario_input' = txt
            /\ outcome' = r.outcome
            /\ tela' = r.tela
            /\ df_RFV' = r.df_RFV
            /\ quartis' = r.quartis
            /\ df_marketing' = r.df_marketing
            /\ df_xlsx' = r.df_xlsx
            /\ df_xlsx2' = r.df_xlsx2

\* The session opens: no file, the widgets at their defaults, the first run
\* of the script has created the empty comment map
Init ==
    /\ uploaded_file = <<>>
    /\ dados_compras = TRUE
    /\ filtrada = TRUE
    /\ selecao_recencia = "A"
    /\ selecao_frequencia = "A"
    /\ selecao_valor = "A"
    /\ comentarios_rfv = dict_vazio
    /\ submit_button = FALSE
    /\ erase_button = FALSE
    /\ comentario_input = ""
    /\ outcome = "sem_arquivo"
    /\ tela = <<>>
    /\ df_RFV = <<>>
    /\ quartis = <<>>
    /\ df_marketing = <<>>
    /\ df_xlsx = <<>>
    /\ df_xlsx2 = <<>>

-----------------------------------------------------------------------------
(* User interactions *)

\* the widgets below line 142 exist once read_csv has returned; those below
\* line 237 once the classification is done
Classificou == outcome = "ok"

\* the user picks a file in the uploader (line 110)
Upload(f) ==
    /\ uploaded_file = <<>>
    /\ Rerun(<<f>>, dados_compras, filtrada, selecao_recencia,
             selecao_frequencia, selecao_valor, <<comentarios_rfv>>,
             FALSE, FALSE, "")

\* the user removes the file from the uploader
RemoverArquivo ==
    /\ uploaded_file # <<>>
    /\ Rerun(<<>>, dados_compras, filtrada, selecao_recencia,
             selecao_frequencia, selecao_valor, <<comentarios_rfv>>,
             FALSE, FALSE, "")

\* checkbox of line 142
AlternarDadosCompras ==
    /\ uploaded_file # <<>>
    /\ outcome # "ValueError"
    /\ Rerun(uploaded_file, ~dados_compras, filtrada, selecao_recencia,
             selecao_frequencia, selecao_valor, <<comentarios_rfv>>,
             FALSE, FALSE, "")

\* checkbox of line 283
AlternarFiltrada ==
    /\ Classificou
    /\ Rerun(uploaded_file, dados_compras, ~filtrada, selecao_recencia,
             selecao_frequencia, selecao_valor, <<comentarios_rfv>>,
             FALSE, FALSE, "")

\* select boxes of lines 237-258
Selecionar(sr, sf, sv) ==
    /\ Classificou
    /\ <<sr, sf, sv>> # <<selecao_recencia, selecao_frequencia, selecao_valor>>
    /\ Rerun(uploaded_file, dados_compras, filtrada, sr, sf, sv,
             <<comentarios_rfv>>, FALSE, FALSE, "")

\* "Enviar Comentario" with txt in the text input (lines 337-350)
Enviar(txt) ==
    /\ Classificou /\ filtrada
    /\ Rerun(uploaded_file, dados_compras, filtrada, selecao_recencia,
             selecao_frequencia, selecao_valor, <<comentarios_rfv>>,
             TRUE, FALSE, txt)

\* "Limpar Comentario" (lines 345, 352-354)
Limpar ==
    /\ Classificou /\ filtrada
    /\ Rerun(uploaded_file, dados_compras, filtrada, selecao_recencia,
             selecao_frequencia, selecao_valor, <<comentarios_rfv>>,
             FALSE, TRUE, "")

\* "Limpar comentarios salvos": the callback pops the key, then the script runs
LimparComentarios ==
    /\ Classificou
    /\ Rerun(uploaded_file, dados_compras, filtrada, selecao_recencia,
             selecao_frequencia, selecao_valor, <<>>,
             FALSE, FALSE, "")

\* "Limpar dados": the callback clears the whole session state, then the
\* script runs.  Whether the widgets come back with their values or with
\* their defaults depends on the Streamlit release: both are possible.
LimparDados ==
    /\ Classificou
    /\ \/ Rerun(uploaded_file, dados_compras, filtrada, selecao_recencia,
                selecao_frequencia, selecao_valor, <<>>, FALSE, FALSE, "")
       \/ Rerun(<<>>, TRUE, TRUE, "A", "A", "A", <<>>, FALSE, FALSE, "")

-----------------------------------------------------------------------------
(* Uploaded files *)

Linha(id, dia, codigo, valor) ==
    [ID_cliente |-> id, DiaCompra |-> dia, CodigoCompra |-> codigo,
     ValorTotal |-> valor]

Linhas == {Linha(id, dia, c, v) :
              id \in Clientes, dia \in 0..MaxInstante, c \in Codigos, v \in Valores}

Tabelas(n) == UNION {[1..k -> Linhas] : k \in 0..n}

\* the scenario of the documentation: C1 buys on 2024-01-01 and 2024-01-10,
\* C2 on 2024-01-05 (day 0 is 2024-01-01)
ArquivoCenario ==
    Arquivo(Colunas, TRUE,
            <<Linha(1, 0, "T1", 100), Linha(1, 9 * UnidadesPorDia, "T2", 50),
              Linha(2, 4 * UnidadesPorDia, "T3", 200)>>)

\* well-formed files with at least one row
ArquivosValidos ==
    {Arquivo(Colunas, TRUE, l) : l \in Tabelas(MaxRows) \ {<<>>}}
        \cup {ArquivoCenario}

\* any header, parseable dates or not, few rows
ArquivosQuaisquer ==
    {Arquivo(c, d, l) : c \in SUBSET Colunas, d \in BOOLEAN,
                        l \in Tabelas(MaxRowsQuaisquer)}

\* the files of the interactive sessions
ArquivosUI ==
    {ArquivoCenario,
     Arquivo(Colunas, TRUE, <<Linha(1, 0, "T1", 50), Linha(2, 3, "T2", 100),
                              Linha(2, 4, "T2", 50), Linha(3, 0, "T3", 50)>>)}

\* the profiles the user of the interactive sessions selects
SelecoesUI == {<<r, f, "A">> : r \in {"A", "D"}, f \in {"A", "D"}}

-----------------------------------------------------------------------------
(* Specifications *)

\* uploads of well-formed files
NextRFV ==
    \/ uploaded_file = <<>> /\ \E f \in ArquivosValidos : Upload(f)
    \/ RemoverArquivo

SpecRFV == Init /\ [][NextRFV]_vars

\* uploads of arbitrary files
NextUpload ==
    \/ uploaded_file = <<>> /\ \E f \in ArquivosQuaisquer : Upload(f)
    \/ RemoverArquivo
    \/ AlternarDadosCompras

SpecUpload == Init /\ [][NextUpload]_vars

\* interactive sessions
NextUI ==
    \/ uploaded_file = <<>> /\ \E f \in ArquivosUI : Upload(f)
    \/ RemoverArquivo
    \/ AlternarFiltrada
    \/ \E s \in SelecoesUI : Selecionar(s[1], s[2], s[3])
    \/ \E txt \in Textos : Enviar(txt)
    \/ Limpar
    \/ LimparComentarios
    \/ LimparDados

SpecUI == Init /\ [][NextUI]_vars

\* the classification applied to indicator tables drawn directly: any table
\* with one customer at Recencia 1 and Frequencia >= 1 comes from some upload
TabelasIndicadores ==
    {DataFrame([i \in 1..Len(d) |-> i], Indicadores, d) :
        d \in {e \in UNION {[1..k -> RegistrosR] \cup [1..k -> RegistrosFV] :
                            k \in 1..MaxClientes} :
                  \E i \in 1..Len(e) : e[i].Recencia = 1}}

InitClass ==
    /\ uploaded_file = <<>>
    /\ dados_compras = TRUE
    /\ filtrada = TRUE
    /\ selecao_recencia = "A"
    /\ selecao_frequencia = "A"
    /\ selecao_valor = "A"
    /\ comentarios_rfv = dict_vazio
    /\ submit_button = FALSE
    /\ erase_button = FALSE
    /\ comentario_input = ""
    /\ outcome = "indicadores"
    /\ tela = <<>>
    /\ df_RFV \in {<<t>> : t \in TabelasIndicadores}
    /\ quartis = <<>>
    /\ df_marketing = <<>>
    /\ df_xlsx = <<>>
    /\ df_xlsx2 = <<>>

\* lines 217-234 on the indicator table
Classificar ==
    /\ outcome = "indicadores"
    /\ \E q \in {quantis_de(df_RFV[1])} :
           /\ quartis' = <<q>>
           /\ df_RFV' = <<classificar(df_RFV[1], q)>>
    /\ outcome' = "classificado"
    /\ UNCHANGED <<uploaded_file, dados_compras, filtrada, selecao_recencia,
                   selecao_frequencia, selecao_valor, comentarios_rfv,
                   submit_button, erase_button, comentario_input, tela,
                   df_marketing, df_xlsx, df_xlsx2>>

NextClass == Classificar

SpecClass == InitClass /\ [][NextClass]_vars

-----------------------------------------------------------------------------
(* Properties *)

Rank(c) == CHOOSE k \in 1..4 : Classes[k] = c

Posicoes(df) == 1..Len(df.index)

C2_Recencia ==
    outcome = "ok" =>
        LET linhas == uploaded_file[1].linhas
            df == df_RFV[1]
            N == 1..Len(linhas)
        IN  \A i \in Posicoes(df) :
                \E j \in N, g \in N :
                    /\ linhas[j].ID_cliente = df.index[i]
                    /\ \A k \in N : linhas[k].ID_cliente = df.index[i]
                                       => linhas[k].DiaCompra <= linhas[j].DiaCompra
                    /\ \A k \in N : linhas[k].DiaCompra <= linhas[g].DiaCompra
                    /\ LET delta == linhas[g].DiaCompra + UnidadesPorDia
                                       - linhas[j].DiaCompra
                           rec == df.data[i].Recencia
                       IN  /\ rec * UnidadesPorDia <= delta
                           /\ delta < (rec + 1) * UnidadesPorDia
                           /\ rec >= 1
                           /\ linhas[j].DiaCompra = linhas[g].DiaCompra => rec = 1

\* the scenario of the documentation: C1 has recency 1 and C2 recency 6
C2_Witness ==
    /\ outcome = "ok"
    /\ uploaded_file = <<ArquivoCenario>>
    /\ df_RFV[1].index = <<1, 2>>
    /\ df_RFV[1].data[1].Recencia = 1
    /\ df_RFV[1].data[2].Recencia = 6

\* C3: the breakpoints of Recencia are ordered, q25 <= q50 <= q75; R_quartil
\* is "A" when x <= q25, "B" when q25 < x <= q50, "C" when q50 < x <= q75 and
\* "D" otherwise; and of two customers the one with the smaller Recencia
\* never gets an alphabetically later class.
C3_ClasseRecencia ==
    outcome = "classificado" =>
        LET df == df_RFV[1]
            q == quartis[1].Recencia
        IN  /\ q["0.25"] <= q["0.5"] /\ q["0.5"] <= q["0.75"]
            /\ \A i \in Posicoes(df) :
                   LET x == Escala * df.data[i].Recencia
                       c == df.data[i].R_quartil
                   IN  /\ c = "A" <=> x <= q["0.25"]
                       /\ c = "B" <=> (q["0.25"] < x /\ x <= q["0.5"])
                       /\ c = "C" <=> (q["0.5"] < x /\ x <= q["0.75"])
                       /\ c = "D" <=> q["0.75"] < x
            /\ \A i, j \in Posicoes(df) :
                   df.data[i].Recencia < df.data[j].Recencia
                       => Rank(df.data[i].R_quartil) <= Rank(df.data[j].R_quartil)

\* a Recencia exactly at the median breakpoint gets "B", and a customer with
\* a larger Recencia gets a later class
C3_Witness ==
    /\ outcome = "classificado"
    /\ LET df == df_RFV[1]
           q == quartis[1].Recencia
       IN  \E i, j \in Posicoes(df) :
               /\ q["0.25"] < q["0.5"]
               /\ Escala * df.data[i].Recencia = q["0.5"]
               /\ df.data[i].R_quartil = "B"
               /\ df.data[i].Recencia < df.data[j].Recencia
               /\ df.data[j].R_quartil = "D"

ClasseFV(df, q, col, classe) ==
    /\ q["0.25"] <= q["0.5"] /\ q["0.5"] <= q["0.75"]
    /\ \A i \in Posicoes(df) :
           LET x == Escala * df.data[i][col]
               c == df.data[i][classe]
           IN  /\ c = "D" <=> x <= q["0.25"]
               /\ c = "C" <=> (q["0.25"] < x /\ x <= q["0.5"])
               /\ c = "B" <=> (q["0.5"] < x /\ x <= q["0.75"])
               /\ c = "A" <=> q["0.75"] < x
    /\ \A i, j \in Posicoes(df) :
           df.data[i][col] < df.data[j][col]
               => Rank(df.data[j][classe]) <= Rank(df.data[i][classe])

\* C4: for Frequencia and for Valor the breakpoints are ordered and the class
\* is "D" when x <= q25, "C" when q25 < x <= q50, "B" when q50 < x <= q75 and
\* "A" otherwise; and of two customers the one with the larger Frequencia
\* (Valor) never gets an alphabetically later class.
C4_ClasseFrequenciaValor ==
    outcome = "classificado" =>
        /\ ClasseFV(df_RFV[1], quartis[1].Frequencia, "Frequencia", "F_quartil")
        /\ ClasseFV(df_RFV[1], quartis[1].Valor, "Valor", "V_quartil")

\* a Frequencia exactly at the median breakpoint gets "C", the worse class,
\* a smaller one gets "D", and some Valor gets "A"
C4_Witness ==
    /\ outcome = "classificado"
    /\ LET df == df_RFV[1]
           q == quartis[1].Frequencia
       IN  \E i, j, k \in Posicoes(df) :
               /\ q["0.25"] < q["0.5"]
               /\ Escala * df.data[i].Frequencia = q["0.5"]
               /\ df.data[i].F_quartil = "C"
               /\ df.data[j].Frequencia < df.data[i].Frequencia
               /\ df.data[j].F_quartil = "D"
               /\ df.data[k].V_quartil = "A"

\* the indicator columns on which the two customers of a table differ
Diferem(df) == {c \in Range(Indicadores) : df.data[1][c] # df.data[2][c]}

Breakpoints(c) == {quartis[1][c][k] : k \in Range(Quantis)}

ClasseDe(c) == IF c = "Recencia" THEN "R_quartil"
               ELSE IF c = "Frequencia" THEN "F_quartil" ELSE "V_quartil"

\* C9 as stated: with exactly 2 customers whose values for an indicator
\* differ, the three breakpoints of the indicator take at most 2 distinct
\* values and each customer's class is one of at most two letters.
C9_Original ==
    (outcome = "classificado" /\ Len(df_RFV[1].index) = 2) =>
        \A c \in Diferem(df_RFV[1]) :
            /\ Cardinality(Breakpoints(c)) <= 2
            /\ Cardinality({df_RFV[1].data[i][ClasseDe(c)] : i \in 1..2}) <= 2

\* C9, amended: with exactly 2 customers whose values for an indicator
\* differ, the three breakpoints take 3 distinct values, all strictly between
\* the two customers' values; the classification ends without error and each
\* customer's class is one of two letters: the smaller value gets "A" for
\* Recencia and "D" for Frequencia and Valor, the larger value the other one.
C9_DoisClientes ==
    (outcome = "classificado" /\ Len(df_RFV[1].index) = 2) =>
        \A c \in Diferem(df_RFV[1]) :
            LET df == df_RFV[1]
                lo == IF df.data[1][c] < df.data[2][c] THEN 1 ELSE 2
                hi == 3 - lo
            IN  /\ Cardinality(Breakpoints(c)) = 3
                /\ \A b \in Breakpoints(c) :
                       /\ Escala * df.data[lo][c] < b
                       /\ b < Escala * df.data[hi][c]
                /\ df.data[lo][ClasseDe(c)] = (IF c = "Recencia" THEN "A" ELSE "D")
                /\ df.data[hi][ClasseDe(c)] = (IF c = "Recencia" THEN "D" ELSE "A")

\* two customers that differ on all three indicators, classified
C9_Witness ==
    /\ outcome = "classificado"
    /\ Len(df_RFV[1].index) = 2
    /\ Diferem(df_RFV[1]) = Range(Indicadores)
    /\ df_RFV[1].data[1].R_quartil = "A"
    /\ df_RFV[1].data[2].R_quartil = "D"

SelecaoAtual == Score(selecao_recencia, selecao_frequencia, selecao_valor)

\* C5: a run that handles "Enviar Comentario" sets the entry of the selected
\* profile to the text sent and leaves every other entry as it was; a run
\* that handles "Limpar Comentario" removes the entry of the selected profile
\* and leaves every other entry as it was; after "Limpar comentarios salvos"
\* or "Limpar dados" the run sees a map without entries.
C5_MapaDeComentarios ==
    [][/\ submit_button' =>
              /\ DOMAIN comentarios_rfv' = DOMAIN comentarios_rfv \cup {SelecaoAtual'}
              /\ comentarios_rfv'[SelecaoAtual'] = comentario_input'
              /\ \A c \in DOMAIN comentarios_rfv \ {SelecaoAtual'} :
                     comentarios_rfv'[c] = comentarios_rfv[c]
       /\ erase_button' =>
              /\ DOMAIN comentarios_rfv' = DOMAIN comentarios_rfv \ {SelecaoAtual'}
              /\ \A c \in DOMAIN comentarios_rfv' :
                     comentarios_rfv'[c] = comentarios_rfv[c]
       /\ (LimparComentarios \/ LimparDados) =>
              /\ comentarios_rfv' = dict_vazio
              /\ df_marketing' # <<>> =>
                     \A i \in Posicoes(df_marketing'[1]) :
                         df_marketing'[1].data[i].Comentario = ""
      ]_vars

\* "Limpar Comentario" has removed the shown comment of the selected profile
\* and the comment of another profile is still stored
C5_Witness ==
    /\ erase_button
    /\ df_marketing # <<>>
    /\ df_marketing[1].data # <<>>
    /\ df_marketing[1].data[1].Comentario = "promo"
    /\ SelecaoAtual \notin DOMAIN comentarios_rfv
    /\ \E c \in DOMAIN comentarios_rfv : comentarios_rfv[c] = "promo"

\* C10: in a run of the filtered view, the comment column shown and the
\* column exported with the strategy sheet hold, for every row, the comment
\* the map had for the selected profile before the run handled its button:
\* a run that handles "Enviar Comentario" or "Limpar Comentario" still shows
\* the old value and the run after it shows the new one.  Every row shown
\* carries the selected profile.
C10_ComentarioExibido ==
    [][(outcome' = "ok" /\ filtrada' /\ ~LimparComentarios /\ ~LimparDados) =>
          /\ Len(df_xlsx2'[1].rows) = Len(df_marketing'[1].data)
          /\ \A i \in Posicoes(df_marketing'[1]) :
                 /\ df_marketing'[1].data[i].RFV_Score = SelecaoAtual'
                 /\ df_marketing'[1].data[i].Comentario =
                        get(comentarios_rfv, SelecaoAtual', "")
                 /\ df_xlsx2'[1].rows[i].RFV_Score = SelecaoAtual'
                 /\ df_xlsx2'[1].rows[i].Sugestao =
                        get(comentarios_rfv, SelecaoAtual', "")
      ]_vars

\* the run that handled "Enviar Comentario" shows a row of the selected
\* profile with the old, empty comment while the map holds the new one
C10_Witness ==
    /\ submit_button
    /\ outcome = "ok"
    /\ df_marketing[1].data # <<>>
    /\ df_marketing[1].data[1].Comentario = ""
    /\ df_xlsx2[1].rows[1].Sugestao = ""
    /\ comentarios_rfv[SelecaoAtual] = "promo"

Malformado(f) ==
    \/ f.colunas # Colunas
    \/ f.linhas # <<>> /\ ~f.datas_validas

ErrosReportados == {"ValueError", "TypeError", "KeyError"}

\* C6: when the uploaded file lacks a required column or its DiaCompra cells
\* do not parse as dates, the run ends in a reported error, no RFV table is
\* computed and no table at all is shown.
C6_InputFormatError ==
    (uploaded_file # <<>> /\ Malformado(uploaded_file[1])) =>
        /\ outcome \in ErrosReportados
        /\ df_RFV = <<>>
        /\ tela = <<>>

\* C7: when the uploaded file is well formed and has zero rows, the run ends
\* in the EmptyInputError outcome: neither an uncaught exception nor a run
\* that shows an empty classified table.
C7_EmptyInputError ==
    (uploaded_file # <<>> /\ ~Malformado(uploaded_file[1])
        /\ uploaded_file[1].linhas = <<>>) =>
        /\ outcome = "EmptyInputError"
        /\ df_RFV = <<>>

\* the table the first download button exports: the filtered view or the
\* full table
Exportados ==
    IF filtrada
    THEN {i \in Posicoes(df_RFV[1]) :
             /\ df_RFV[1].data[i].R_quartil = selecao_recencia
             /\ df_RFV[1].data[i].F_quartil = selecao_frequencia
             /\ df_RFV[1].data[i].V_quartil = selecao_valor}
    ELSE Posicoes(df_RFV[1])

\* C8: the exported sheet, read back, has the customer identifier column,
\* the same set of customers as the exported table and, for each customer,
\* the same three class letters.
C8_ExportRoundTrip ==
    (outcome = "ok" /\ Exportados # {}) =>
        LET sheet == df_xlsx[1]
            df == df_RFV[1]
        IN  /\ "ID_cliente" \in Range(sheet.header)
            /\ {sheet.rows[k].ID_cliente : k \in 1..Len(sheet.rows)}
                   = {df.index[i] : i \in Exportados}
            /\ \A i \in Exportados :
                   \E k \in 1..Len(sheet.rows) :
                       /\ sheet.rows[k].ID_cliente = df.index[i]
                       /\ sheet.rows[k].R_quartil = df.data[i].R_quartil
                       /\ sheet.rows[k].F_quartil = df.data[i].F_quartil
                       /\ sheet.rows[k].V_quartil = df.data[i].V_quartil

====
